---- MODULE Spec2Model ----
(***************************************************************************)
(* Model of PDFService (src/src/services/pdfService.ts): the packet         *)
(* assembly pipeline generatePacket and the artifact presenter downloadPDF. *)
(*                                                                          *)
(* JavaScript values that may be undefined are modelled as tuples: <<>> is  *)
(* undefined and <<v>> is the value v.  Strings that the code searches with *)
(* String.includes are modelled as sequences of fragments; each fragment is *)
(* a literal of the source or a text supplied by the environment.           *)
(***************************************************************************)
EXTENDS Integers, Sequences, FiniteSets, TLC

VARIABLES
    workerUrl,          \* this.workerUrl, set by the constructor
    selectedDocuments,  \* argument of generatePacket
    formData,           \* argument of generatePacket
    pc,                 \* position of generatePacket
    sortedDocs,         \* const sortedDocs
    tasks,              \* the promises returned by sortedDocs.map(async ...)
    doneOrder,          \* indexes of tasks in the order in which they settled
    warned,             \* ids of documents for which console.warn was called
    fetchLog,           \* urls passed to fetch(doc.document.url), in call order
    lookupLog,          \* arguments of getDocumentsByProductType, in call order
    postLog,            \* payloads POSTed to <workerUrl>/generate-packet
    lookupFailed,       \* TRUE when getDocumentsByProductType rejected
    clockRead,          \* the value of new Date() read while building the payload
    workerResponse,     \* the Response of the POST, <<>> before it arrives
    result,             \* outcome of generatePacket, <<>> while it runs
    filenameArg,        \* the filename the caller passes to downloadPDF
    saved,              \* the last link.click(): the filename argument of its
                        \* call and the link.download it saved under
    links,              \* anchors currently appended to document.body
    liveUrls,           \* object URLs downloadPDF created and not yet revoked
    timers,             \* pending setTimeout callbacks of downloadPDF
    downloadCalls,      \* number of downloadPDF calls made
    downloadError,      \* error thrown by the last downloadPDF call, <<>> if none
    downloads,          \* per downloadPDF call: the DOM and URL calls made for it
    previews            \* per previewPDF call: the window and URL calls made for
                        \* it, and the error it threw

vars == <<workerUrl, selectedDocuments, formData, pc, sortedDocs, tasks,
          doneOrder, warned, fetchLog, lookupLog, postLog, lookupFailed,
          clockRead, workerResponse, result, filenameArg, saved, links,
          liveUrls, timers, downloadCalls, downloadError, downloads, previews>>

pipelineVars == <<selectedDocuments, formData, pc, sortedDocs, tasks,
                  doneOrder, warned, fetchLog, lookupLog, postLog,
                  lookupFailed, clockRead, workerResponse, result>>

presenterVars == <<filenameArg, saved, links, liveUrls, timers,
                   downloadCalls, downloadError, downloads, previews>>

downloadVars == <<filenameArg, saved, links, liveUrls, timers,
                  downloadCalls, downloadError, downloads>>

----------------------------------------------------------------------------
(* Bounds *)

MaxDocs == 2        \* longest selectedDocuments array
MaxOrder == 2       \* order values range over 1..MaxOrder
MaxPresent == 1     \* most fields of formData that are present at once
MaxNameLen == 5     \* longest filename passed to downloadPDF
MaxDownloads == 2   \* most downloadPDF calls in one behaviour
MaxPreviews == 2    \* most previewPDF calls in one behaviour

----------------------------------------------------------------------------
(* JavaScript values *)

Undefined == <<>>

Some(v) == <<v>>

\* a || b on strings: the left operand unless it is undefined or ""
OrElse(v, d) == IF v = Undefined \/ v = Some("") THEN d ELSE v

\* a ?? b: the left operand unless it is undefined
Nullish(v, d) == IF v = Undefined THEN d ELSE v

\* obj?.field
OptChain(obj, f) == IF obj = Undefined THEN Undefined ELSE obj[1][f]

\* fragments that contain the needle of a String.includes test
Mentions(needle) ==
    CASE needle = "fetch" ->
           {"Failed to fetch", "NetworkError when attempting to fetch resource.",
            "Failed to fetch document: "}
      [] needle = "Failed to process document" ->
           {"Failed to process document: ",
            "Failed to process document: spec.pdf"}
      [] needle = "bucket" ->
           {"bucket not found", "bucket-guide.pdf"}

\* String.prototype.includes on a fragment sequence
Includes(msg, needle) == \E i \in DOMAIN msg : msg[i] \in Mentions(needle)

\* String.prototype.toLowerCase, fragment by fragment
ToLowerCase(msg) ==
    [i \in DOMAIN msg |-> IF msg[i] = "Bucket not found" THEN "bucket not found"
                          ELSE msg[i]]

----------------------------------------------------------------------------
(* Errors *)

Error(msg) == [type |-> "Error", message |-> msg]

TypeError(msg) == [type |-> "TypeError", message |-> msg]

\* `${x}` of a value that may be undefined
Interpolate(v) == IF v = Undefined THEN "undefined" ELSE v[1]

NoDocumentsMessage == <<"No documents selected for packet generation">>

ProcessMessage(doc) == <<"Failed to process document: ", Interpolate(doc.name)>>

ConnectMessage(url) ==
    <<"Cannot connect to PDF Worker at ", url, ". ",
      "Please check your internet connection and verify the worker is accessible.">>

DocumentsMessage ==
    <<"One or more documents could not be loaded. Please verify all documents are accessible and try again.">>

StorageMessage ==
    <<"Document storage is not properly configured. Please contact support or verify your Supabase setup.">>

EmptyPdfMessage == <<"Received empty PDF from worker">>

ClassifyBucketFirst(url, e) ==
    IF Includes(ToLowerCase(e.message), "bucket") THEN Error(StorageMessage)
    ELSE IF e.type = "TypeError" /\ Includes(e.message, "fetch")
    THEN Error(ConnectMessage(url))
    ELSE IF Includes(e.message, "Failed to process document")
    THEN Error(DocumentsMessage)
    ELSE e

ClassifyNoDocuments(url, e) ==
    IF e.type = "TypeError" /\ Includes(e.message, "fetch")
    THEN Error(ConnectMessage(url))
    ELSE IF Includes(ToLowerCase(e.message), "bucket")
    THEN Error(StorageMessage)
    ELSE e

\* the catch block of generatePacket: the error it rethrows for a caught error
Classify(url, e) ==
    IF e.type = "TypeError" /\ Includes(e.message, "fetch")
    THEN Error(ConnectMessage(url))
    ELSE IF Includes(e.message, "Failed to process document")
    THEN Error(DocumentsMessage)
    ELSE IF Includes(ToLowerCase(e.message), "bucket")
    THEN Error(StorageMessage)
    ELSE e

Failure(e) == Some([ok |-> FALSE, bytes |-> <<>>, error |-> Some(e)])

Success(b) == Some([ok |-> TRUE, bytes |-> b, error |-> Undefined])

----------------------------------------------------------------------------
(* Selection: filter, sort *)

\* selectedDocuments.filter(doc => doc.selected)
RECURSIVE FilterSelected(_)
FilterSelected(s) ==
    IF s = <<>> THEN <<>>
    ELSE IF Head(s).selected THEN <<Head(s)>> \o FilterSelected(Tail(s))
         ELSE FilterSelected(Tail(s))

\* insertion of d after every element e with e.order - d.order <= 0
RECURSIVE InsertByOrder(_, _)
InsertByOrder(d, s) ==
    IF s = <<>> THEN <<d>>
    ELSE IF Head(s).order - d.order <= 0
         THEN <<Head(s)>> \o InsertByOrder(d, Tail(s))
         ELSE <<d>> \o s

RECURSIVE SortFrom(_, _)
SortFrom(s, acc) ==
    IF s = <<>> THEN acc ELSE SortFrom(Tail(s), InsertByOrder(Head(s), acc))

SortDescending(s) ==
    LET asc == SortFrom(s, <<>>)
    IN  [i \in DOMAIN asc |-> asc[Len(asc) + 1 - i]]

\* .sort((a, b) => a.order - b.order): stable, ascending
SortByOrder(s) == SortFrom(s, <<>>)

CallerArraySortedInPlace(array) == SortByOrder(array)

\* the caller's array after selectedDocuments.filter(...).sort(...): filter
\* returns a new array and sort reorders its receiver, which is that new
\* array
CallerArrayAfter(array) == array

----------------------------------------------------------------------------
(* Inputs of generatePacket *)

DocName(i) ==
    CASE i = 1 -> "bucket-guide.pdf"
      [] i = 2 -> "spec.pdf"
      [] OTHER -> "tds.pdf"

DocUrl(i) ==
    CASE i = 1 -> "https://files.test/1"
      [] i = 2 -> "https://files.test/2"
      [] OTHER -> "https://files.test/n"

DocType(i) == IF i = 1 THEN Some("tds") ELSE Undefined

\* the SelectedDocument entries that may stand at position i of the input:
\* name and url vary on the selected entries, the only ones that are read,
\* and at most one of the two is missing
Entries(i) ==
    { [id |-> i, name |-> nu[1], url |-> nu[2], type |-> DocType(i),
       selected |-> TRUE, order |-> o] :
        nu \in { <<Some(DocName(i)), Some(DocUrl(i))>>,
                 <<Undefined, Some(DocUrl(i))>>,
                 <<Some(DocName(i)), Undefined>> },
        o \in 1..MaxOrder }
      \cup { [id |-> i, name |-> Some(DocName(i)), url |-> Some(DocUrl(i)),
              type |-> DocType(i), selected |-> FALSE, order |-> 1] }

Selections ==
    UNION { { s \in [1..n -> UNION {Entries(i) : i \in 1..n}] :
                \A i \in 1..n : s[i] \in Entries(i) } : n \in 0..MaxDocs }

StringFields ==
    {"projectName", "submittedTo", "preparedBy", "date", "projectNumber",
     "emailAddress", "phoneNumber", "product", "productType"}

StatusFlags == {"forReview", "forApproval", "forRecord", "forInformationOnly"}

SubmittalFlags ==
    {"tds", "threePartSpecs", "testReportIccEsr5194", "testReportIccEsl1645",
     "fireAssembly", "fireAssembly01", "fireAssembly02", "fireAssembly03",
     "msds", "leedGuide", "installationGuide", "warranty", "samples", "other"}

\* the places of a Partial<ProjectFormData> that may be present
Paths ==
    { <<f>> : f \in StringFields \cup {"status", "submittalType"} }
      \cup { <<"status", f>> : f \in StatusFlags }
      \cup { <<"submittalType", f>> : f \in SubmittalFlags \cup {"otherText"} }

\* the value a present string field carries; filled = FALSE gives ""
StringValue(f, filled) ==
    IF ~filled THEN ""
    ELSE CASE f = "productType" -> "underlayment"
           [] f = "date" -> "January 5, 2025"
           [] OTHER -> "given"

\* the Partial<ProjectFormData> whose present places are S
FormOf(S, filled) ==
    LET top(f) == IF <<f>> \in S THEN Some(StringValue(f, filled)) ELSE Undefined
        group(g, flags, texts) ==
            IF \E p \in S : p[1] = g
            THEN Some([f \in flags \cup texts |->
                        IF <<g, f>> \notin S THEN Undefined
                        ELSE IF f \in texts THEN Some(StringValue(f, filled))
                        ELSE Some(filled)])
            ELSE Undefined
    IN  [f \in StringFields \cup {"status", "submittalType"} |->
            CASE f = "status" -> group("status", StatusFlags, {})
              [] f = "submittalType" ->
                    group("submittalType", SubmittalFlags, {"otherText"})
              [] OTHER -> top(f)]

RECURSIVE PathSets(_)
PathSets(k) ==
    IF k = 0 THEN {{}}
    ELSE PathSets(k - 1) \cup { T \cup {p} : T \in PathSets(k - 1), p \in Paths }

Forms == { FormOf(S, filled) : S \in PathSets(MaxPresent), filled \in BOOLEAN }

----------------------------------------------------------------------------
(* Payload *)

Dates == { [year |-> 2025, month |-> 11, day |-> 24],
           [year |-> 2026, month |-> 1, day |-> 5] }

\* toLocaleDateString('en-US', {year: 'numeric', month: 'long', day: 'numeric'})
ToLocaleDateString(d) ==
    CASE d = [year |-> 2025, month |-> 11, day |-> 24] -> "November 24, 2025"
      [] d = [year |-> 2026, month |-> 1, day |-> 5] -> "January 5, 2026"

\* formData.productType as ProductType || 'structural-floor'
ProductTypeOf(form) == OrElse(form.productType, Some("structural-floor"))

FieldOrNoDefault(v, d) == v

\* formData.<field> || '<default>'
FieldOr(v, d) == OrElse(v, d)

\* the projectData member of the payload
ProjectData(form, now) ==
    [ projectName |-> FieldOr(form.projectName, Some("Untitled Project")),
      submittedTo |-> FieldOr(form.submittedTo, Some("N/A")),
      preparedBy |-> FieldOr(form.preparedBy, Some("N/A")),
      date |-> FieldOr(form.date, Some(ToLocaleDateString(now))),
      projectNumber |-> FieldOr(form.projectNumber, Some("N/A")),
      emailAddress |-> FieldOr(form.emailAddress, Some("N/A")),
      phoneNumber |-> FieldOr(form.phoneNumber, Some("N/A")),
      product |-> FieldOr(form.product, Some("3/4-in (20mm)")),
      productType |-> ProductTypeOf(form),
      status |->
        [f \in StatusFlags |-> Nullish(OptChain(form.status, f), Some(FALSE))],
      submittalType |->
        [f \in SubmittalFlags \cup {"otherText"} |->
            IF f = "otherText"
            THEN FieldOr(OptChain(form.submittalType, f), Some(""))
            ELSE Nullish(OptChain(form.submittalType, f), Some(FALSE))] ]

SelectedDocumentNamesRaw(sorted) ==
    [i \in DOMAIN sorted |-> Interpolate(sorted[i].name)]

\* sortedDocs.map(doc => doc.document.name || 'Unnamed Document')
SelectedDocumentNames(sorted) ==
    [i \in DOMAIN sorted |-> OrElse(sorted[i].name, Some("Unnamed Document"))[1]]

\* allCategoryDocs.map(doc => doc.name).filter(Boolean)
RECURSIVE AvailableNames(_)
AvailableNames(docs) ==
    IF docs = <<>> THEN <<>>
    ELSE IF Head(docs) = Undefined \/ Head(docs) = Some("")
         THEN AvailableNames(Tail(docs))
         ELSE <<Head(docs)[1]>> \o AvailableNames(Tail(docs))

\* the value a document task returns
FetchedDocument(doc, fileData) ==
    [ id |-> doc.id,
      name |-> OrElse(doc.name, Some("Unnamed Document"))[1],
      url |-> OrElse(doc.url, Some(""))[1],
      type |-> OrElse(doc.type, Some("other"))[1],
      fileData |-> OrElse(Some(fileData), Some(""))[1] ]

----------------------------------------------------------------------------
(* Document tasks: the async callback of sortedDocs.map *)

TransportTexts ==
    {"Failed to fetch", "NetworkError when attempting to fetch resource.",
     "Load failed"}

\* what fetch(doc.document.url) may settle with
FetchOutcomes ==
    { [kind |-> "response", ok |-> TRUE, status |-> 200, text |-> "OK"],
      [kind |-> "response", ok |-> FALSE, status |-> 404, text |-> "Not Found"] }
      \cup { [kind |-> "failure", ok |-> FALSE, status |-> 0, text |-> t] :
                t \in TransportTexts }

\* the media type the source of document i serves
BlobType(i) ==
    CASE i = 1 -> "text/html"
      [] i = 2 -> "application/pdf"
      [] OTHER -> ""

Contents == {<<>>, <<37, 80>>}

\* what response.blob() of document i may settle with
BlobOutcomes(i) ==
    { [kind |-> "blob", type |-> BlobType(i), bytes |-> b] : b \in Contents }
      \cup { [kind |-> "failure", type |-> "", bytes |-> <<>>] }

Base64(bytes) ==
    CASE bytes = <<>> -> ""
      [] bytes = <<37, 80>> -> "JVA="

\* reader.result after readAsDataURL(blob), split at its comma: the prefix
\* "data:<media type>;base64" and the encoding of the bytes
SplitDataUrl(bytes) == <<"data:;base64", Base64(bytes)>>

\* base64String.split(',')[1] || ''
Base64Data(bytes) == OrElse(Some(SplitDataUrl(bytes)[2]), Some(""))[1]

ResponseOkAlways(outcome) == outcome.kind = "response"

\* fetch resolved and response.ok
ResponseOk(outcome) == outcome.kind = "response" /\ outcome.ok

\* blob.type && blob.type !== 'application/pdf'
UnexpectedType(blob) == blob.type # "" /\ blob.type # "application/pdf"

Pending(st, blob, fault) ==
    [st |-> st, blob |-> blob, value |-> Undefined, reason |-> Undefined,
     fault |-> fault]

Fulfilled(v, fault) ==
    [st |-> "fulfilled", blob |-> Undefined, value |-> Some(v),
     reason |-> Undefined, fault |-> fault]

\* the catch of the callback: throw new Error(`Failed to process document: ...`)
Rejected(doc, fault) ==
    [st |-> "rejected", blob |-> Undefined, value |-> Undefined,
     reason |-> Some(Error(ProcessMessage(doc))), fault |-> fault]

\* the callback up to its first await
StartTask(doc) ==
    IF doc.url # Undefined /\ doc.url # Some("")
    THEN Pending("fetch", Undefined, Undefined)
    ELSE Rejected(doc, Some("no-url"))

\* the callback after await fetch(...)
AfterFetch(doc, outcome) ==
    LET fault == IF outcome.kind = "failure" THEN Some("transport")
                 ELSE IF ~outcome.ok THEN Some("status") ELSE Undefined
    IN  IF ResponseOk(outcome) THEN Pending("blob", Undefined, fault)
        ELSE Rejected(doc, fault)

AfterBlobStrict(doc, t, outcome) ==
    IF outcome.kind = "blob" /\ ~UnexpectedType(outcome)
    THEN Pending("read", Some(outcome.bytes), t.fault)
    ELSE Rejected(doc, IF outcome.kind = "blob" THEN Some("type") ELSE Some("read"))

\* the callback after await response.blob()
AfterBlob(doc, t, outcome) ==
    IF outcome.kind = "blob"
    THEN Pending("read", Some(outcome.bytes), t.fault)
    ELSE Rejected(doc, Some("read"))

AfterReadNoGuard(doc, t, loaded) ==
    IF ~loaded THEN Rejected(doc, Some("read"))
    ELSE Fulfilled(FetchedDocument(doc, Base64Data(t.blob[1])),
                   IF Base64Data(t.blob[1]) = "" /\ t.fault = Undefined
                   THEN Some("empty") ELSE t.fault)

\* the callback after the FileReader promise settled
AfterRead(doc, t, loaded) ==
    IF ~loaded THEN Rejected(doc, Some("read"))
    ELSE IF Base64Data(t.blob[1]) = ""
    THEN Rejected(doc, IF t.fault = Undefined THEN Some("empty") ELSE t.fault)
    ELSE Fulfilled(FetchedDocument(doc, Base64Data(t.blob[1])), t.fault)

AllStateWaits(tk) ==
    IF \E i \in DOMAIN tk : tk[i].st \notin {"fulfilled", "rejected"} THEN "pending"
    ELSE IF \E i \in DOMAIN tk : tk[i].st = "rejected" THEN "rejected"
    ELSE "fulfilled"

AllStateAny(tk) ==
    IF \E i \in DOMAIN tk : tk[i].st = "rejected" THEN "rejected"
    ELSE IF \E i \in DOMAIN tk : tk[i].st = "fulfilled" THEN "fulfilled"
    ELSE "pending"

\* Promise.all over the tasks
AllState(tk) ==
    IF \E i \in DOMAIN tk : tk[i].st = "rejected" THEN "rejected"
    ELSE IF \A i \in DOMAIN tk : tk[i].st = "fulfilled" THEN "fulfilled"
    ELSE "pending"

\* the reason Promise.all rejects with: that of the task that rejected first
RECURSIVE FirstReason(_, _)
FirstReason(tk, ord) ==
    IF tk[Head(ord)].st = "rejected" THEN tk[Head(ord)].reason[1]
    ELSE FirstReason(tk, Tail(ord))

GatherByCompletion(tk, ord) == [k \in DOMAIN tk |-> tk[ord[k]].value[1]]

\* the array Promise.all fulfils with: by position, not by completion
GatherResults(tk, ord) == [i \in DOMAIN tk |-> tk[i].value[1]]

----------------------------------------------------------------------------
(* Directory lookup and rendering service *)

\* what documentService.getDocumentsByProductType may settle with:
\* the names of the Document[] it resolves with, or a rejection
DirectoryOutcomes ==
    { [ok |-> TRUE, names |-> n] :
        n \in { <<>>, <<Some("TDS"), Undefined, Some(""), Some("MSDS")>> } }
      \cup { [ok |-> FALSE, names |-> <<>>] }

CategoryDocsCached(outcome) ==
    IF outcome.ok THEN outcome.names ELSE <<Some("TDS")>>

\* the catch around the lookup: allCategoryDocs stays [] when it rejects
CategoryDocs(outcome) == IF outcome.ok THEN outcome.names ELSE <<>>

MessageTexts ==
    {"render failed", "Bucket not found", "Failed to process document: spec.pdf"}

\* error bodies of the rendering service
ErrorBodies ==
    { [kind |-> "object", message |-> Some(t), error |-> Undefined, raw |-> ""] :
        t \in MessageTexts }
      \cup { [kind |-> "object", message |-> m, error |-> e, raw |-> ""] :
                m \in {Undefined, Some("")},
                e \in {Undefined, Some("Bucket not found")} }
      \cup { [kind |-> "null", message |-> Undefined, error |-> Undefined,
              raw |-> "null"] }
      \cup { [kind |-> "text", message |-> Undefined, error |-> Undefined,
              raw |-> t] : t \in {"", "Bad Gateway"} }

\* responses of the rendering service; status is kept in its printed form
WorkerResponses ==
    { [ok |-> TRUE, status |-> "200", statusText |-> "OK", bodyUsed |-> FALSE,
       complete |-> FALSE, body |-> [kind |-> "bytes", bytes |-> b]] :
        b \in {<<>>, <<37>>, <<37, 80>>} }
      \cup { [ok |-> FALSE, status |-> "500", statusText |-> "Internal Server Error",
              bodyUsed |-> FALSE, complete |-> FALSE, body |-> b] : b \in ErrorBodies }
      \cup { [ok |-> FALSE, status |-> "404", statusText |-> "Not Found",
              bodyUsed |-> FALSE, complete |-> FALSE, body |-> b] :
                b \in {x \in ErrorBodies : x.kind = "text"} }

\* TypeError texts of Body.text() on a body that was already read
BodyUsedTexts ==
    {"Failed to execute 'text' on 'Response': body stream already read",
     "Response.text: Body has already been consumed.",
     "Body is unusable: Body has already been read"}

\* JSON.stringify(errorData)
Stringify(body) ==
    <<"{">>
      \o (IF body.message = Undefined THEN <<>>
          ELSE <<"\"message\":\"", body.message[1], "\"">>)
      \o (IF body.error = Undefined THEN <<>>
          ELSE <<"\"error\":\"", body.error[1], "\"">>)
      \o <<"}">>

\* `Worker request failed: ${status} ${statusText}`
WorkerFailedMessage(resp) ==
    <<"Worker request failed: ", resp.status, " ", resp.statusText>>

\* errorMessage += ` - ${errorData.message || JSON.stringify(errorData)}`
WithErrorData(resp) ==
    WorkerFailedMessage(resp) \o <<" - ">>
      \o (IF resp.body.message = Undefined \/ resp.body.message = Some("")
          THEN Stringify(resp.body) ELSE <<resp.body.message[1]>>)

IsEmptyBufferNever(bytes) == FALSE

\* pdfBuffer.byteLength === 0
IsEmptyBuffer(bytes) == Len(bytes) = 0

IsEmptySelectionNever(sorted) == FALSE

\* sortedDocs.length === 0
IsEmptySelection(sorted) == Len(sorted) = 0

\* the request body
Payload(form, now, sorted, documents, outcome) ==
    [ projectData |-> ProjectData(form, now),
      documents |-> documents,
      selectedDocumentNames |-> SelectedDocumentNames(sorted),
      allAvailableDocuments |-> AvailableNames(CategoryDocs(outcome)) ]

----------------------------------------------------------------------------
(* generatePacket *)

DefaultWorkerUrl == "https://pdf-packet-generator.maxterra-pdf-builder.workers.dev"

\* constructor: import.meta.env.VITE_WORKER_URL || '<default>'
Constructor(env) == OrElse(env, Some(DefaultWorkerUrl))[1]

EnvValues == {Undefined, Some("https://worker.test")}

\* generatePacket resumes after await Promise.all(...): it rethrows through
\* its catch block, or calls the directory lookup, or keeps waiting
Resume(tk, ord) ==
    CASE AllState(tk) = "rejected" ->
           /\ pc' = "done"
           /\ result' = Failure(Classify(workerUrl, FirstReason(tk, ord)))
           /\ lookupLog' = lookupLog
      [] AllState(tk) = "fulfilled" ->
           /\ pc' = "lookup"
           /\ result' = result
           /\ lookupLog' = Append(lookupLog, ProductTypeOf(formData)[1])
      [] OTHER ->
           /\ pc' = "awaitAll"
           /\ UNCHANGED <<result, lookupLog>>

\* a task settles while generatePacket may or may not still await the tasks
TaskStep(i, t, warn) ==
    /\ tasks' = [tasks EXCEPT ![i] = t]
    /\ doneOrder' = IF t.st \in {"fulfilled", "rejected"}
                     THEN Append(doneOrder, i) ELSE doneOrder
    /\ warned' = IF warn THEN warned \cup {sortedDocs[i].id} ELSE warned
    /\ IF pc = "awaitAll"
       THEN Resume(tasks', doneOrder')
       ELSE UNCHANGED <<pc, result, lookupLog>>
    /\ UNCHANGED <<workerUrl, selectedDocuments, formData, sortedDocs, fetchLog,
                   postLog, lookupFailed, clockRead, workerResponse>>
    /\ UNCHANGED presenterVars

RECURSIVE UrlsOfRetry(_)
UrlsOfRetry(sorted) ==
    IF sorted = <<>> THEN <<>>
    ELSE IF StartTask(Head(sorted)).st = "fetch"
         THEN <<Head(sorted).url[1], Head(sorted).url[1]>>
                \o UrlsOfRetry(Tail(sorted))
         ELSE UrlsOfRetry(Tail(sorted))

\* the urls passed to fetch by the map, in call order
RECURSIVE UrlsOf(_)
UrlsOf(sorted) ==
    IF sorted = <<>> THEN <<>>
    ELSE IF StartTask(Head(sorted)).st = "fetch"
         THEN <<Head(sorted).url[1]>> \o UrlsOf(Tail(sorted))
         ELSE UrlsOf(Tail(sorted))

RECURSIVE SettledAtStart(_, _)
SettledAtStart(tk, i) ==
    IF i > Len(tk) THEN <<>>
    ELSE IF tk[i].st = "rejected" THEN <<i>> \o SettledAtStart(tk, i + 1)
         ELSE SettledAtStart(tk, i + 1)

\* generatePacket is called: filter, sort, the empty check, and the map that
\* starts every task
Start ==
    /\ pc = "idle"
    /\ LET sorted == SortByOrder(FilterSelected(selectedDocuments))
           tk == [i \in DOMAIN sorted |-> StartTask(sorted[i])]
       IN  /\ sortedDocs' = sorted
           /\ IF IsEmptySelection(sorted)
              THEN /\ pc' = "done"
                   /\ result' = Failure(Classify(workerUrl, Error(NoDocumentsMessage)))
                   /\ UNCHANGED <<tasks, doneOrder, fetchLog, lookupLog>>
              ELSE /\ tasks' = tk
                   /\ doneOrder' = SettledAtStart(tk, 1)
                   /\ fetchLog' = UrlsOf(sorted)
                   /\ Resume(tasks', doneOrder')
    /\ selectedDocuments' = CallerArrayAfter(selectedDocuments)
    /\ UNCHANGED <<workerUrl, formData, warned, postLog,
                   lookupFailed, clockRead, workerResponse>>
    /\ UNCHANGED presenterVars

\* fetch(doc.document.url) settles
FetchSettles ==
    \E i \in DOMAIN tasks : \E outcome \in FetchOutcomes :
        /\ tasks[i].st = "fetch"
        /\ TaskStep(i, AfterFetch(sortedDocs[i], outcome), FALSE)

\* response.blob() settles
BlobSettles ==
    \E i \in DOMAIN tasks : \E outcome \in BlobOutcomes(sortedDocs[i].id) :
        /\ tasks[i].st = "blob"
        /\ TaskStep(i, AfterBlob(sortedDocs[i], tasks[i], outcome),
                    outcome.kind = "blob" /\ UnexpectedType(outcome))

\* the FileReader fires loadend (loaded) or error
ReaderSettles ==
    \E i \in DOMAIN tasks : \E loaded \in BOOLEAN :
        /\ tasks[i].st = "read"
        /\ TaskStep(i, AfterRead(sortedDocs[i], tasks[i], loaded), FALSE)

\* getDocumentsByProductType settles; the payload is built and POSTed
LookupSettles ==
    \E outcome \in DirectoryOutcomes : \E now \in Dates :
        /\ pc = "lookup"
        /\ lookupFailed' = ~outcome.ok
        /\ clockRead' = IF formData.date = Undefined \/ formData.date = Some("")
                         THEN Some(now) ELSE clockRead
        /\ postLog' = Append(postLog,
                          Payload(formData, now, sortedDocs,
                                  GatherResults(tasks, doneOrder), outcome))
        /\ pc' = "post"
        /\ UNCHANGED <<workerUrl, selectedDocuments, formData, sortedDocs, tasks,
                       doneOrder, warned, fetchLog, lookupLog, workerResponse,
                       result>>
        /\ UNCHANGED presenterVars

\* the POST fails in transport
PostFails ==
    \E t \in TransportTexts :
        /\ pc = "post"
        /\ pc' = "done"
        /\ result' = Failure(Classify(workerUrl, TypeError(<<t>>)))
        /\ UNCHANGED <<workerUrl, selectedDocuments, formData, sortedDocs, tasks,
                       doneOrder, warned, fetchLog, lookupLog, postLog,
                       lookupFailed, clockRead, workerResponse>>
        /\ UNCHANGED presenterVars

\* the POST resolves with a Response; json() or arrayBuffer() is called on it
PostResponds ==
    \E resp \in WorkerResponses :
        /\ pc = "post"
        /\ workerResponse' = Some([resp EXCEPT !.bodyUsed = TRUE])
        /\ pc' = IF resp.ok THEN "body" ELSE "json"
        /\ UNCHANGED <<workerUrl, selectedDocuments, formData, sortedDocs, tasks,
                       doneOrder, warned, fetchLog, lookupLog, postLog,
                       lookupFailed, clockRead, result>>
        /\ UNCHANGED presenterVars

\* Body.text(): rejects with a TypeError when the body was already read
TextOf(resp, t) ==
    IF resp.bodyUsed THEN [ok |-> FALSE, error |-> TypeError(<<t>>), text |-> ""]
    ELSE [ok |-> TRUE, error |-> TypeError(<<>>), text |-> resp.body.raw]

\* workerResponse.json() settles; the error is built and thrown
JsonSettles ==
    \E t \in BodyUsedTexts :
        /\ pc = "json"
        /\ LET resp == workerResponse[1]
               text == TextOf(resp, t)
               thrown ==
                   IF resp.body.kind = "object" THEN Error(WithErrorData(resp))
                   ELSE IF ~text.ok THEN text.error
                   ELSE Error(WorkerFailedMessage(resp) \o <<" - ", text.text>>)
           IN  result' = Failure(Classify(workerUrl, thrown))
        /\ pc' = "done"
        /\ UNCHANGED <<workerUrl, selectedDocuments, formData, sortedDocs, tasks,
                       doneOrder, warned, fetchLog, lookupLog, postLog,
                       lookupFailed, clockRead, workerResponse>>
        /\ UNCHANGED presenterVars

\* workerResponse.arrayBuffer() settles
BodySettles ==
    \E arrived \in BOOLEAN :
        /\ pc = "body"
        /\ LET bytes == workerResponse[1].body.bytes
           IN  result' =
                 IF ~arrived
                 THEN Failure(Classify(workerUrl, TypeError(<<"network error">>)))
                 ELSE IF IsEmptyBuffer(bytes)
                 THEN Failure(Classify(workerUrl, Error(EmptyPdfMessage)))
                 ELSE Success(bytes)
        /\ workerResponse' = Some([workerResponse[1] EXCEPT !.complete = arrived])
        /\ pc' = "done"
        /\ UNCHANGED <<workerUrl, selectedDocuments, formData, sortedDocs, tasks,
                       doneOrder, warned, fetchLog, lookupLog, postLog,
                       lookupFailed, clockRead>>
        /\ UNCHANGED presenterVars

----------------------------------------------------------------------------
(* downloadPDF *)

\* characters of filenames
Chars == {"r", ".", "p", "d", "f"}

RECURSIVE Names(_)
Names(n) ==
    IF n = 0 THEN {<<>>}
    ELSE Names(n - 1)
           \cup { Append(s, c) : s \in { x \in Names(n - 1) : Len(x) = n - 1 },
                                 c \in Chars }

Filenames == Names(MaxNameLen)

DotPdf == <<".", "p", "d", "f">>

\* String.prototype.endsWith
EndsWith(s, suffix) ==
    /\ Len(s) >= Len(suffix)
    /\ SubSeq(s, Len(s) - Len(suffix) + 1, Len(s)) = suffix

NormalizeAlwaysAppend(filename) == filename \o DotPdf

\* if (!filename.endsWith('.pdf')) filename += '.pdf'
NormalizeFilename(filename) ==
    IF ~EndsWith(filename, DotPdf) THEN filename \o DotPdf ELSE filename

DownloadFailedMessage == <<"Failed to download PDF. Please try again.">>

\* the statements of downloadPDF that the environment may make throw
ThrowPoints == {"none", "createObjectURL", "appendChild"}

DownloadEventsCleanupFirst(throwAt) ==
    CASE throwAt = "createObjectURL" -> <<>>
      [] throwAt = "appendChild" -> <<"createObjectURL">>
      [] OTHER -> <<"createObjectURL", "appendChild", "removeChild",
                    "revokeObjectURL", "click">>

\* the URL and DOM calls one downloadPDF call completes before it returns
\* or throws
DownloadEvents(throwAt) ==
    CASE throwAt = "createObjectURL" -> <<>>
      [] throwAt = "appendChild" -> <<"createObjectURL">>
      [] OTHER -> <<"createObjectURL", "appendChild", "click", "setTimeout">>

\* the calls of the setTimeout callback of downloadPDF
DownloadTimerEvents == <<"removeChild", "revokeObjectURL">>

Has(events, e) == \E k \in DOMAIN events : events[k] = e

\* the first position of e in events, 0 when it is not there
RECURSIVE Position(_, _)
Position(events, e) ==
    IF ~Has(events, e) THEN 0
    ELSE IF Head(events) = e THEN 1
    ELSE 1 + Position(Tail(events), e)

\* the call has a callback waiting that will revoke its URL
TimerPending(events) ==
    Has(events, "setTimeout") /\ ~Has(events, "revokeObjectURL")

\* timers of equal delay run in the order in which they were set
OldestPending(calls) ==
    LET pend == {i \in DOMAIN calls : TimerPending(calls[i].events)}
    IN  IF pend = {} THEN 0
        ELSE CHOOSE i \in pend : \A j \in pend : i <= j

\* downloadPDF(pdfBytes, filename)
Download ==
    \E throwAt \in ThrowPoints :
        /\ downloadCalls < MaxDownloads
        /\ downloadCalls' = downloadCalls + 1
        /\ UNCHANGED filenameArg
        /\ liveUrls' = IF throwAt = "createObjectURL" THEN liveUrls
                        ELSE liveUrls + 1
        /\ links' = IF throwAt = "none" THEN links + 1 ELSE links
        /\ saved' = IF throwAt = "none"
                     THEN Some([filename |-> filenameArg,
                                download |-> NormalizeFilename(filenameArg)])
                     ELSE saved
        /\ timers' = IF throwAt = "none" THEN timers + 1 ELSE timers
        /\ downloadError' = IF throwAt = "none" THEN Undefined
                             ELSE Some(Error(DownloadFailedMessage))
        /\ downloads' = Append(downloads, [events |-> DownloadEvents(throwAt)])
        /\ UNCHANGED previews
        /\ UNCHANGED workerUrl
        /\ UNCHANGED pipelineVars

\* the setTimeout callback of downloadPDF: removeChild, revokeObjectURL
DownloadTimer ==
    /\ timers > 0
    /\ timers' = timers - 1
    /\ links' = links - 1
    /\ liveUrls' = liveUrls - 1
    /\ downloads' = IF OldestPending(downloads) = 0 THEN downloads
                    ELSE [downloads EXCEPT ![OldestPending(downloads)].events =
                                              @ \o DownloadTimerEvents]
    /\ UNCHANGED <<filenameArg, saved, downloadCalls, downloadError, previews>>
    /\ UNCHANGED workerUrl
    /\ UNCHANGED pipelineVars

----------------------------------------------------------------------------
(* previewPDF *)

PreviewFailedMessage ==
    <<"Failed to preview PDF. Please try again or download the file instead.">>

\* the statements of previewPDF that the environment may make throw
PreviewThrowPoints == {"none", "createObjectURL", "open", "navigate"}

\* the URL and window calls one previewPDF call completes before it returns
\* or throws; opened: window.open returned a window and not null
PreviewEvents(opened, throwAt) ==
    CASE throwAt = "createObjectURL" -> <<>>
      [] throwAt = "open" -> <<"createObjectURL">>
      [] opened -> <<"createObjectURL", "open", "onload">>
      [] throwAt = "navigate" -> <<"createObjectURL", "open">>
      [] OTHER -> <<"createObjectURL", "open", "navigate", "setTimeout">>

\* the catch block: every throw inside the try becomes one error
PreviewError(opened, throwAt) ==
    IF throwAt \in {"createObjectURL", "open"} \/ (~opened /\ throwAt = "navigate")
    THEN Some(Error(PreviewFailedMessage))
    ELSE Undefined

\* the call has a load handler waiting that will revoke its URL
LoadPending(events) ==
    Has(events, "onload") /\ ~Has(events, "revokeObjectURL")

\* previewPDF(pdfBytes)
Preview ==
    \E opened \in BOOLEAN : \E throwAt \in PreviewThrowPoints :
        /\ Len(previews) < MaxPreviews
        /\ previews' = Append(previews,
                           [events |-> PreviewEvents(opened, throwAt),
                            error |-> PreviewError(opened, throwAt)])
        /\ UNCHANGED downloadVars
        /\ UNCHANGED workerUrl
        /\ UNCHANGED pipelineVars

\* the new window fires load: newWindow.onload revokes the URL
PreviewLoad ==
    \E i \in DOMAIN previews :
        /\ LoadPending(previews[i].events)
        /\ previews' = [previews EXCEPT ![i].events = Append(@, "revokeObjectURL")]
        /\ UNCHANGED downloadVars
        /\ UNCHANGED workerUrl
        /\ UNCHANGED pipelineVars

\* the setTimeout callback of previewPDF: revokeObjectURL
PreviewTimer ==
    /\ OldestPending(previews) # 0
    /\ previews' = [previews EXCEPT ![OldestPending(previews)].events =
                                      Append(@, "revokeObjectURL")]
    /\ UNCHANGED downloadVars
    /\ UNCHANGED workerUrl
    /\ UNCHANGED pipelineVars

----------------------------------------------------------------------------
(* Specifications *)

EmptyForm == FormOf({}, TRUE)

\* a selection of one document, used where the form is what varies
OneDocument ==
    << [id |-> 1, name |-> Some(DocName(1)), url |-> Some(DocUrl(1)),
        type |-> DocType(1), selected |-> TRUE, order |-> 1] >>

InitPresenter ==
    /\ saved = Undefined
    /\ links = 0
    /\ liveUrls = 0
    /\ timers = 0
    /\ downloadCalls = 0
    /\ downloadError = Undefined
    /\ downloads = <<>>
    /\ previews = <<>>

InitPipeline ==
    /\ pc = "idle"
    /\ sortedDocs = <<>>
    /\ tasks = <<>>
    /\ doneOrder = <<>>
    /\ warned = {}
    /\ fetchLog = <<>>
    /\ lookupLog = <<>>
    /\ postLog = <<>>
    /\ lookupFailed = FALSE
    /\ clockRead = Undefined
    /\ workerResponse = Undefined
    /\ result = Undefined

\* the service is constructed; generatePacket is about to be called
Init ==
    /\ \/ /\ workerUrl = Constructor(Undefined)
          /\ selectedDocuments \in Selections
          /\ formData = EmptyForm
       \/ /\ workerUrl \in {Constructor(env) : env \in EnvValues}
          /\ selectedDocuments = OneDocument
          /\ formData \in Forms
    /\ InitPipeline
    /\ filenameArg = <<"r">>
    /\ InitPresenter

Next ==
    \/ Start
    \/ FetchSettles
    \/ BlobSettles
    \/ ReaderSettles
    \/ LookupSettles
    \/ PostFails
    \/ PostResponds
    \/ JsonSettles
    \/ BodySettles

Spec == Init /\ [][Next]_vars

\* the service is constructed; downloadPDF is what the caller calls
InitDownload ==
    /\ workerUrl = Constructor(Undefined)
    /\ selectedDocuments = <<>>
    /\ formData = EmptyForm
    /\ InitPipeline
    /\ filenameArg \in Filenames
    /\ InitPresenter

NextDownload == Download \/ DownloadTimer

SpecDownload == InitDownload /\ [][NextDownload]_vars

\* the service is constructed; the caller previews and downloads an artifact
InitPresent ==
    /\ workerUrl = Constructor(Undefined)
    /\ selectedDocuments = <<>>
    /\ formData = EmptyForm
    /\ InitPipeline
    /\ filenameArg \in {<<"r">>, <<"r">> \o DotPdf}
    /\ InitPresenter

NextPresent ==
    \/ Preview
    \/ PreviewLoad
    \/ PreviewTimer
    \/ Download
    \/ DownloadTimer

\* the event loop runs every timer callback that is due and delivers the
\* load event of a window that was opened
SpecPresent ==
    /\ InitPresent
    /\ [][NextPresent]_vars
    /\ WF_vars(PreviewLoad)
    /\ WF_vars(PreviewTimer)
    /\ WF_vars(DownloadTimer)

----------------------------------------------------------------------------
(* Properties *)

Settled == pc = "done" /\ result # Undefined

Failed == Settled /\ ~result[1].ok

FailedWith(msg) == Settled /\ result = Failure(Error(msg))

NoneSelected == \A i \in DOMAIN selectedDocuments : ~selectedDocuments[i].selected

SelectedIds == {i \in DOMAIN selectedDocuments : selectedDocuments[i].selected}

\* msg has a fragment equal to the text
HasFragment(msg, text) == \E i \in DOMAIN msg : msg[i] = text

\* C1: when no entry of the input is selected, generatePacket fails with the
\* no-documents-selected error and issues no document fetch, no directory
\* lookup and no POST.
C1_NoSelectionNoNetwork ==
    NoneSelected =>
        /\ fetchLog = <<>> /\ lookupLog = <<>> /\ postLog = <<>>
        /\ pc # "idle" => FailedWith(NoDocumentsMessage)

C1_Witness ==
    /\ Len(selectedDocuments) = MaxDocs
    /\ NoneSelected
    /\ FailedWith(NoDocumentsMessage)

\* C2: in every request sent, documents and selectedDocumentNames list
\* exactly the selected entries, ascending by order, entries of equal order
\* in their input order, whatever the input order and the order in which
\* the fetches completed.
C2_RequestInSelectionOrder ==
    \A k \in DOMAIN postLog :
        LET docs == postLog[k].documents
            names == postLog[k].selectedDocumentNames
            entry(j) == selectedDocuments[docs[j].id]
        IN  /\ Len(docs) = Cardinality(SelectedIds)
            /\ Len(names) = Len(docs)
            /\ {docs[j].id : j \in DOMAIN docs} = SelectedIds
            /\ \A j \in DOMAIN docs :
                  names[j] = IF entry(j).name = Undefined THEN "Unnamed Document"
                             ELSE entry(j).name[1]
            /\ \A i, j \in DOMAIN docs :
                  i < j => \/ entry(i).order < entry(j).order
                           \/ /\ entry(i).order = entry(j).order
                              /\ docs[i].id < docs[j].id

C2_Witness ==
    /\ postLog # <<>>
    /\ Len(selectedDocuments) >= 2
    /\ selectedDocuments[1].order > selectedDocuments[2].order
    /\ Len(postLog[1].documents) >= 2
    /\ postLog[1].documents[1].id = 2
    /\ doneOrder[1] = 2

\* C3: once the source retrieval of a selected document has failed (missing
\* url, non-success status, transport failure, read failure, empty
\* encoding), generatePacket has failed and no POST was issued.
C3_FetchFailureNoPost ==
    (\E i \in DOMAIN tasks : tasks[i].fault # Undefined) =>
        Failed /\ postLog = <<>>

C3_Witness ==
    /\ Failed
    /\ \E i, j \in DOMAIN tasks :
          /\ tasks[i].fault = Some("status")
          /\ tasks[j].st = "fulfilled"

\* C4: when the directory lookup fails and every document fetch succeeds,
\* the request is still sent, with allAvailableDocuments empty, and the
\* outcome is decided by the answer of the rendering service.
C4_LookupFailureStillSends ==
    lookupFailed =>
        /\ Len(postLog) = 1
        /\ postLog[1].allAvailableDocuments = <<>>
        /\ \A i \in DOMAIN tasks : tasks[i].st = "fulfilled"
        /\ Settled =>
              IF workerResponse = Undefined
              THEN Failed
              ELSE result[1].ok <=>
                     /\ workerResponse[1].ok
                     /\ workerResponse[1].complete
                     /\ workerResponse[1].body.bytes # <<>>

C4_Witness ==
    /\ lookupFailed
    /\ Settled
    /\ result[1].ok

\* the defaults of the specification's table, by field
DocumentedDefault(f) ==
    CASE f = "projectName" -> "Untitled Project"
      [] f \in {"submittedTo", "preparedBy", "projectNumber", "emailAddress",
                "phoneNumber"} -> "N/A"
      [] f = "product" -> "3/4-in (20mm)"
      [] f = "productType" -> "structural-floor"

\* the flag or text f of the group g is absent from the input
AbsentIn(g, f) == formData[g] = Undefined \/ formData[g][1][f] = Undefined

\* C5: in every request sent, each field of projectData that is absent from
\* the input carries its documented default (date: the current date), and
\* no field of projectData is undefined.
C5_PayloadDefaults ==
    \A k \in DOMAIN postLog :
        LET pd == postLog[k].projectData
        IN  /\ \A f \in StringFields \ {"date"} :
                  /\ pd[f] # Undefined
                  /\ formData[f] = Undefined => pd[f] = Some(DocumentedDefault(f))
            /\ pd.date # Undefined
            /\ formData.date = Undefined =>
                  /\ clockRead # Undefined
                  /\ pd.date = Some(ToLocaleDateString(clockRead[1]))
            /\ \A f \in StatusFlags :
                  /\ pd.status[f] # Undefined
                  /\ AbsentIn("status", f) => pd.status[f] = Some(FALSE)
            /\ \A f \in SubmittalFlags :
                  /\ pd.submittalType[f] # Undefined
                  /\ AbsentIn("submittalType", f) =>
                        pd.submittalType[f] = Some(FALSE)
            /\ pd.submittalType.otherText # Undefined
            /\ AbsentIn("submittalType", "otherText") =>
                  pd.submittalType.otherText = Some("")

C5_Witness ==
    /\ postLog # <<>>
    /\ formData.projectName = Undefined
    /\ formData.date = Undefined
    /\ formData.submittalType # Undefined
    /\ formData.submittalType[1].tds = Some(TRUE)
    /\ AbsentIn("submittalType", "otherText")
    /\ postLog[1].projectData.submittalType.tds = Some(TRUE)

\* C6: a success answer whose body has zero bytes makes generatePacket fail
\* with the empty-artifact error, and every artifact returned is non-empty.
C6_EmptyArtifactRejected ==
    /\ ( /\ Settled
         /\ workerResponse # Undefined
         /\ workerResponse[1].ok
         /\ workerResponse[1].complete
         /\ workerResponse[1].body.bytes = <<>> ) => FailedWith(EmptyPdfMessage)
    /\ (Settled /\ result[1].ok) => Len(result[1].bytes) > 0

C6_Witness ==
    /\ FailedWith(EmptyPdfMessage)
    /\ workerResponse # Undefined
    /\ workerResponse[1].ok
    /\ workerResponse[1].body.bytes = <<>>

\* the task whose rejection Promise.all reported
RECURSIVE FirstRejected(_, _)
FirstRejected(tk, ord) ==
    IF tk[Head(ord)].st = "rejected" THEN Head(ord)
    ELSE FirstRejected(tk, Tail(ord))

\* C7 as claimed: when the fetch of a selected document answers with a
\* non-success status, generatePacket fails with a document-processing
\* error that names that document, and nothing is POSTed.
C7_StatusFailureNamesDocument ==
    \A i \in DOMAIN tasks :
        ( /\ tasks[i].fault = Some("status")
          /\ FirstRejected(tasks, doneOrder) = i
          /\ sortedDocs[i].name # Undefined ) =>
            /\ Failed
            /\ postLog = <<>>
            /\ HasFragment(result[1].error[1].message,
                           Interpolate(sortedDocs[i].name))

\* C7 as amended: when the fetch of a selected document answers with a
\* non-success status, generatePacket fails with the general
\* document-processing error, which names no document, and nothing is
\* POSTed.
C7_StatusFailureIsDocumentsError ==
    \A i \in DOMAIN tasks :
        tasks[i].fault = Some("status") =>
            /\ FailedWith(DocumentsMessage)
            /\ postLog = <<>>
            /\ ~HasFragment(result[1].error[1].message,
                            Interpolate(sortedDocs[i].name))

C7_Witness ==
    /\ FailedWith(DocumentsMessage)
    /\ Len(tasks) = 2
    /\ tasks[1].st = "fulfilled"
    /\ tasks[2].fault = Some("status")

\* C8: when the rendering service answers with a non-success status and a
\* JSON body that has a message, the error of generatePacket carries the
\* status, the status text and that message.
C8_RenderErrorCarriesMessage ==
    ( /\ Settled
      /\ workerResponse # Undefined
      /\ ~workerResponse[1].ok
      /\ workerResponse[1].body.kind = "object"
      /\ workerResponse[1].body.message \notin {Undefined, Some("")} ) =>
        /\ Failed
        /\ HasFragment(result[1].error[1].message, workerResponse[1].status)
        /\ HasFragment(result[1].error[1].message, workerResponse[1].statusText)
        /\ HasFragment(result[1].error[1].message,
                       workerResponse[1].body.message[1])

\* C9: when the rendering service answers with a non-success status and a
\* non-empty body that is not JSON, the error of generatePacket is a render-service
\* error that carries the status, the status text and the raw body text.
C9_RenderErrorCarriesRawText ==
    ( /\ Settled
      /\ workerResponse # Undefined
      /\ ~workerResponse[1].ok
      /\ workerResponse[1].body.kind = "text"
      /\ workerResponse[1].body.raw # "" ) =>
        /\ Failed
        /\ result[1].error[1].type = "Error"
        /\ HasFragment(result[1].error[1].message, workerResponse[1].status)
        /\ HasFragment(result[1].error[1].message, workerResponse[1].statusText)
        /\ HasFragment(result[1].error[1].message, workerResponse[1].body.raw)

\* C10: downloadPDF saves under the filename when it ends with ".pdf" and
\* under the filename followed by ".pdf" otherwise; the saved name ends
\* with ".pdf" and normalising it again changes nothing.
C10_DownloadName ==
    saved # Undefined =>
        LET name == saved[1].filename
            download == saved[1].download
        IN  /\ EndsWith(name, DotPdf) => download = name
            /\ ~EndsWith(name, DotPdf) => download = name \o DotPdf
            /\ EndsWith(download, DotPdf)
            /\ NormalizeFilename(download) = download

C10_Witness ==
    /\ saved # Undefined
    /\ saved[1].filename = <<"r", ".", "p", "d", "f">>
    /\ saved[1].download = <<"r", ".", "p", "d", "f">>
    /\ downloadCalls = 2

\* the selected entries that have a url, in sorted order
RECURSIVE WithUrl(_)
WithUrl(sorted) ==
    IF sorted = <<>> THEN <<>>
    ELSE IF Head(sorted).url = Undefined THEN WithUrl(Tail(sorted))
         ELSE <<Head(sorted)>> \o WithUrl(Tail(sorted))

InFlight(t) == t.st \in {"fetch", "blob", "read"}

\* C11: the map issues the fetch of every selected document before any is
\* awaited; as soon as one task fails generatePacket fails with the error
\* made from that first failure, while other fetches may still be in
\* flight, and what those deliver later reaches no request.
C11_FailFastFanOut ==
    /\ (pc # "idle" /\ sortedDocs # <<>>) =>
          /\ Len(fetchLog) = Len(WithUrl(sortedDocs))
          /\ \A k \in DOMAIN fetchLog : fetchLog[k] = WithUrl(sortedDocs)[k].url[1]
    /\ (\E i \in DOMAIN tasks : tasks[i].st = "rejected") =>
          /\ Settled
          /\ result = Failure(Classify(workerUrl,
                          tasks[FirstRejected(tasks, doneOrder)].reason[1]))
          /\ lookupLog = <<>>
          /\ postLog = <<>>

C11_Witness ==
    /\ Len(tasks) = 2
    /\ doneOrder = <<2, 1>>
    /\ tasks[2].st = "rejected"
    /\ tasks[1].st = "fulfilled"
    /\ Failed
    /\ postLog = <<>>

\* C12: nothing is retried: the url of each selected document is fetched
\* at most once, the directory lookup is called at most once and at most
\* one POST is sent, on every path.
C12_NoRetry ==
    /\ Len(fetchLog) <= Cardinality(SelectedIds)
    /\ \A j, k \in DOMAIN fetchLog : fetchLog[j] = fetchLog[k] => j = k
    /\ Len(lookupLog) <= 1
    /\ Len(postLog) <= 1

C12_Witness ==
    /\ Failed
    /\ workerResponse = Undefined
    /\ Len(fetchLog) = 2
    /\ Len(lookupLog) = 1
    /\ Len(postLog) = 1

RenderFailedPrefix == "Worker request failed: "

\* C15: when the POST fails in transport (no response), generatePacket
\* fails with the connectivity error that names the endpoint and not with
\* a render-service error; a non-success response never gives the
\* connectivity error.
C15_TransportFailureIsConnectivityError ==
    /\ (Settled /\ postLog # <<>> /\ workerResponse = Undefined) =>
          /\ FailedWith(ConnectMessage(workerUrl))
          /\ ~HasFragment(result[1].error[1].message, RenderFailedPrefix)
    /\ (Settled /\ workerResponse # Undefined) =>
          result # Failure(Error(ConnectMessage(workerUrl)))

\* a step that issues the directory lookup and leaves a document task in
\* flight
LookupWhileInFlight ==
    /\ Next
    /\ Len(lookupLog') > Len(lookupLog)
    /\ \E i \in DOMAIN tasks' : InFlight(tasks'[i])

\* C16: the directory lookup is not ordered against the fetch stage: while
\* document fetches are in flight and none has failed, the lookup can be
\* issued.
C16_LookupUnordered ==
    ( /\ pc = "awaitAll"
      /\ lookupLog = <<>>
      /\ \E i \in DOMAIN tasks : InFlight(tasks[i]) ) =>
        ENABLED LookupWhileInFlight

\* C16 as amended: the directory lookup is issued only after the task of
\* every selected document has fulfilled, never before the fetches are
\* issued and never while one is in flight or has failed.
C16_LookupAfterFetchStage ==
    lookupLog # <<>> =>
        /\ Len(tasks) = Cardinality(SelectedIds)
        /\ Len(fetchLog) = Len(tasks)
        /\ \A i \in DOMAIN tasks : tasks[i].st = "fulfilled"

C16_Witness ==
    /\ pc = "lookup"
    /\ lookupLog # <<>>
    /\ Len(tasks) = 2
    /\ postLog = <<>>

\* C17: a document whose encoding is empty makes the call fail; in every
\* request each entry of documents has a fileData that is the non-empty
\* encoding of its content, without the data-URI prefix.
C17_FileDataNonEmpty ==
    /\ \A i \in DOMAIN tasks :
          tasks[i].fault = Some("empty") => tasks[i].st = "rejected" /\ Failed
    /\ \A i \in DOMAIN tasks :
          tasks[i].st = "fulfilled" => tasks[i].value[1].fileData # ""
    /\ \A k \in DOMAIN postLog : \A j \in DOMAIN postLog[k].documents :
          LET data == postLog[k].documents[j].fileData
          IN  /\ data # ""
              /\ \E b \in Contents :
                    /\ data = Base64(b)
                    /\ data # SplitDataUrl(b)[1]

C17_Witness ==
    /\ Failed
    /\ postLog = <<>>
    /\ \E i, j \in DOMAIN tasks :
          /\ tasks[i].fault = Some("empty")
          /\ tasks[j].st = "fulfilled"
          /\ tasks[j].value[1].fileData = Base64(<<37, 80>>)

\* C18: a selected document served with a media type that is present and
\* is not application/pdf gives a warning only: its task goes on to the
\* encoding, fails only for what fails a matching document too, and in the
\* request the document is in documents with its encoding.
C18_TypeMismatchOnlyWarns ==
    /\ \A i \in DOMAIN tasks :
          sortedDocs[i].id \in warned =>
            /\ BlobType(sortedDocs[i].id) \notin {"", "application/pdf"}
            /\ tasks[i].st \in {"read", "fulfilled", "rejected"}
            /\ tasks[i].st = "rejected" =>
                  tasks[i].fault \in {Some("read"), Some("empty")}
    /\ \A i \in DOMAIN tasks :
          ( /\ BlobType(sortedDocs[i].id) \notin {"", "application/pdf"}
            /\ tasks[i].st \in {"read", "fulfilled"} ) =>
              sortedDocs[i].id \in warned
    /\ \A k \in DOMAIN postLog : \A i \in DOMAIN sortedDocs :
          sortedDocs[i].id \in warned =>
            /\ postLog[k].documents[i].id = sortedDocs[i].id
            /\ postLog[k].documents[i].fileData = Base64(<<37, 80>>)

C18_Witness ==
    /\ Settled
    /\ result[1].ok
    /\ Len(postLog) = 1
    /\ Len(postLog[1].documents) = 2
    /\ 1 \in warned
    /\ 2 \notin warned

\* C19: every failure inside the per-document stage (missing url,
\* non-success status, transport error, read error, empty encoding), also
\* of a document whose name mentions the storage bucket, ends
\* generatePacket with the document-processing error and with no other
\* category; the classification tests connectivity, then
\* document-processing, then storage-configuration.
C19_FetchStageFailureIsDocumentsError ==
    /\ \A i \in DOMAIN tasks :
          tasks[i].fault # Undefined =>
            /\ FailedWith(DocumentsMessage)
            /\ result # Failure(Error(ConnectMessage(workerUrl)))
            /\ result # Failure(Error(StorageMessage))
    /\ \A i \in DOMAIN tasks :
          tasks[i].st = "rejected" =>
            /\ tasks[i].reason = Some(Error(ProcessMessage(sortedDocs[i])))
            /\ Classify(workerUrl, tasks[i].reason[1]) = Error(DocumentsMessage)

C19_Witness ==
    /\ FailedWith(DocumentsMessage)
    /\ \E i \in DOMAIN tasks :
          /\ sortedDocs[i].name = Some("bucket-guide.pdf")
          /\ tasks[i].fault = Some("transport")
          /\ Includes(ToLowerCase(tasks[i].reason[1].message), "bucket")

\* C20: in every request documents and selectedDocumentNames have the
\* length of the selection, documents[i].name is selectedDocumentNames[i]
\* ("Unnamed Document" for a document without a name) and documents[i].id
\* is the id of the i-th selected entry.
C20_NamesAligned ==
    \A k \in DOMAIN postLog :
        LET docs == postLog[k].documents
            names == postLog[k].selectedDocumentNames
        IN  /\ Len(docs) = Cardinality(SelectedIds)
            /\ Len(names) = Cardinality(SelectedIds)
            /\ \A i \in DOMAIN docs :
                  /\ docs[i].name = names[i]
                  /\ docs[i].id = sortedDocs[i].id
                  /\ sortedDocs[i].name = Undefined =>
                        names[i] = "Unnamed Document"
                  /\ sortedDocs[i].name # Undefined =>
                        names[i] = sortedDocs[i].name[1]

C20_Witness ==
    /\ Len(postLog) = 1
    /\ Len(postLog[1].documents) = 2
    /\ \E i \in DOMAIN sortedDocs : sortedDocs[i].name = Undefined
    /\ \E i \in DOMAIN sortedDocs :
          /\ sortedDocs[i].name # Undefined
          /\ postLog[1].documents[i].name = sortedDocs[i].name[1]

\* C13: every object URL that previewPDF creates is revoked in the end: by
\* the load handler when the window opened, by the timer after the
\* navigation when it did not, and also when the call ended in an error.
C13_PreviewReleases ==
    \A i \in 1..MaxPreviews :
        []( ( /\ i \in DOMAIN previews
              /\ Has(previews[i].events, "createObjectURL") )
            => <>( /\ i \in DOMAIN previews
                   /\ Has(previews[i].events, "revokeObjectURL") ) )

Clicked(i) == i \in DOMAIN downloads /\ Has(downloads[i].events, "click")

Released(i) ==
    /\ i \in DOMAIN downloads
    /\ Has(downloads[i].events, "revokeObjectURL")
    /\ Has(downloads[i].events, "removeChild")

\* C14: every downloadPDF call that clicked its link revokes its object URL
\* and removes the link from the page in the end, and in no call does the
\* revoke or the removal come before the click.
C14_ReleaseAfterSave ==
    /\ [](\A i \in DOMAIN downloads :
            LET ev == downloads[i].events
            IN  (Has(ev, "revokeObjectURL") \/ Has(ev, "removeChild")) =>
                  /\ Has(ev, "click")
                  /\ Has(ev, "revokeObjectURL") =>
                        Position(ev, "click") < Position(ev, "revokeObjectURL")
                  /\ Has(ev, "removeChild") =>
                        Position(ev, "click") < Position(ev, "removeChild"))
    /\ \A i \in 1..MaxDownloads : [](Clicked(i) => <>Released(i))

C14_Witness ==
    /\ Len(downloads) = 2
    /\ downloads[1].events = DownloadEvents("none") \o DownloadTimerEvents
    /\ downloads[2].events = <<"createObjectURL">>
    /\ links = 0
    /\ timers = 0

\* C21: no step of generatePacket, on a path to success or to failure,
\* changes its inputs: the caller's selectedDocuments array keeps its length,
\* the order of its elements and the selected and order value of each
\* entry, and formData keeps its fields.
C21_InputsUnchanged ==
    [][ /\ Len(selectedDocuments') = Len(selectedDocuments)
        /\ \A i \in DOMAIN selectedDocuments :
              /\ selectedDocuments'[i].id = selectedDocuments[i].id
              /\ selectedDocuments'[i].selected = selectedDocuments[i].selected
              /\ selectedDocuments'[i].order = selectedDocuments[i].order
        /\ selectedDocuments' = selectedDocuments
        /\ formData' = formData ]_vars

C21_Witness ==
    /\ Settled
    /\ result[1].ok
    /\ Len(selectedDocuments) = 2
    /\ selectedDocuments[1].order > selectedDocuments[2].order
    /\ sortedDocs[1].id = 2
    /\ sortedDocs # FilterSelected(selectedDocuments)
    /\ formData.projectName = Undefined
    /\ Len(postLog) = 1
    /\ postLog[1].projectData.projectName = Some("Untitled Project")

====
